---- MODULE Spec2Model ----
(***************************************************************************)
(* boltcycle.CycleDB: a pseudo-LRU over a cycle of bolt buckets.           *)
(*                                                                         *)
(* The root bucket holds one sub-bucket per 8-byte big-endian uint64 name. *)
(* A client goroutine calls Read, Write, Delete, CycleNodes and Close;     *)
(* the readMovementLoop goroutine drains the readMovements channel and     *)
(* recopies the read items into the last bucket.  Every bolt transaction   *)
(* (db.View, db.Update) is one atomic step.                                *)
(***************************************************************************)
EXTENDS Integers, Sequences, FiniteSets, TLC

\* ---------------------------------------------------------------- bounds
\* keys are 1..MaxKey (their order is the byte order bolt cursors use)
MaxKey == 2
\* values are 1..MaxVal
MaxVal == 2
\* longest batch a client passes to Read, Write or Delete
MaxLen == 2
\* CycleLen(n) is explored for n in 0..MaxMinRings
MaxMinRings == 3
\* number of calls the client makes
MaxOps == 5
\* buffer size of the readMovements channel (10000 by default)
MaxBacklog == 2
\* batch size of the read movement loop (1000 in New)
MaxBatch == 2
\* buffer size of the channel given to AsyncErrors
MaxSink == 1
\* number of recopy transactions the store fails
MaxErrs == 2

Keys == 1..MaxKey
Values == 1..MaxVal

\* a nil []byte value: the key was not found
Nil == 0
\* a nil key returned by a cursor of a bucket of keys
NoKey == 0
\* a nil key returned by a cursor of the root bucket
NoBucket == -1

maxBatchSize == MaxBatch

\* the key/value pairs of Write
KvPair == [Key : Keys, Value : Values]

SeqsUpTo(S, n) == UNION {[1..m -> S] : m \in 0..n}

Perms(S) == {s \in [1..Cardinality(S) -> S] : \A i, j \in DOMAIN s : i # j => s[i] # s[j]}

\* ------------------------------------------------------- the bolt buckets
\* a bucket of keys: each key is absent (Nil) or has a value
EmptyBucket == [k \in Keys |-> Nil]

\* a cursor whose First() is the last key
cursorFirstIsLast(r) ==
    IF DOMAIN r = {} THEN NoBucket
    ELSE CHOOSE x \in DOMAIN r : \A y \in DOMAIN r : y <= x

\* bucket.Cursor().First() / Last() / Next() / Prev() on the root bucket r
cursorFirst(r) ==
    IF DOMAIN r = {} THEN NoBucket
    ELSE CHOOSE x \in DOMAIN r : \A y \in DOMAIN r : x <= y

cursorLast(r) ==
    IF DOMAIN r = {} THEN NoBucket
    ELSE CHOOSE x \in DOMAIN r : \A y \in DOMAIN r : y <= x

cursorNext(r, k) ==
    LET after == {x \in DOMAIN r : x > k}
    IN  IF after = {} THEN NoBucket
        ELSE CHOOSE x \in after : \A y \in after : x <= y

cursorPrev(r, k) ==
    LET before == {x \in DOMAIN r : x < k}
    IN  IF before = {} THEN NoBucket
        ELSE CHOOSE x \in before : \A y \in before : y <= x

\* cursor.Seek(key) on a bucket of keys: the first key >= the sought one
Seek(b, key) ==
    LET at == {k \in Keys : k >= key /\ b[k] # Nil}
    IN  IF at = {} THEN NoKey
        ELSE CHOOSE k \in at : \A k2 \in at : k <= k2

\* DeleteBucket deleting the bucket after k
DeleteBucketNext(r, k) == [id \in DOMAIN r \ {k + 1} |-> r[id]]

\* bucket.DeleteBucket(k)
DeleteBucket(r, k) == [id \in DOMAIN r \ {k} |-> r[id]]

\* bucket.CreateBucket(k), k not yet a bucket
CreateBucket(r, k) == [id \in DOMAIN r \cup {k} |-> IF id = k THEN EmptyBucket ELSE r[id]]

\* lastBucket.Put(key, value)
Put(r, id, key, value) == [r EXCEPT ![id][key] = value]

\* ------------------------------------------------------------ CycleNodes
\* nextKey adding 2
nextKeyPlusTwo(last) == last + 2

\* the uint64 wraps at 2^64 - 1; a fresh database is MaxOps calls old at most
nextKey(last) == last + 1

\* the loop condition with >= for >
trimWhileAtLeast(countBuckets, min) == countBuckets >= min

\* the loop condition off by one the other way
trimWhileAboveNext(countBuckets, min) == countBuckets > min + 1

\* the condition of the loop that deletes old buckets
keepTrimming(countBuckets, min) == countBuckets > min

\* the loop of CycleNodes: the cursor walks the keys the root bucket had when the
\* loop began (snapshot) and deletes while there are too many buckets
RECURSIVE trim(_, _, _, _, _)
trim(r, snapshot, k, countBuckets, min) ==
    IF k # NoBucket /\ keepTrimming(countBuckets, min)
    THEN trim(DeleteBucket(r, k), snapshot, cursorNext(snapshot, k), countBuckets - 1, min)
    ELSE r

\* the update transaction of CycleNodes; "panic" is nextKey reading 8 bytes of a
\* nil key, "err" a failed CreateBucket; both roll the transaction back
CycleNodes(r, min) ==
    LET countBuckets == Cardinality(DOMAIN r)
        trimmed == trim(r, r, cursorFirst(r), countBuckets, min)
        lastBucket == cursorLast(trimmed)
    IN  IF lastBucket = NoBucket THEN [outcome |-> "panic", rings |-> r]
        ELSE IF nextKey(lastBucket) \in DOMAIN trimmed THEN [outcome |-> "err", rings |-> r]
        ELSE [outcome |-> "ok", rings |-> CreateBucket(trimmed, nextKey(lastBucket))]

\* ----------------------------------------------------------------- Write
\* the loop of Write leaving after the first pair
putFirstOnly(r, lastBucketKey, towrite) ==
    IF towrite = <<>> THEN r
    ELSE Put(r, lastBucketKey, Head(towrite).Key, Head(towrite).Value)

RECURSIVE putAll(_, _, _)
putAll(r, lastBucketKey, towrite) ==
    IF towrite = <<>> THEN r
    ELSE putAll(Put(r, lastBucketKey, Head(towrite).Key, Head(towrite).Value),
                lastBucketKey, Tail(towrite))

\* the update transaction of Write
Write(r, towrite) ==
    LET lastBucketKey == cursorLast(r)
    IN  IF lastBucketKey = NoBucket THEN [err |-> "errNoLastBucket", rings |-> r]
        ELSE [err |-> "nil", rings |-> putAll(r, lastBucketKey, towrite)]

\* ------------------------------------------------------------------ Read
\* the zero readToLocation: the key was found in no bucket
ZeroLoc == [bucket |-> 0, key |-> NoKey, value |-> Nil, needsCopy |-> FALSE]

\* the hit test without bytes.Equal
seekHitsAnyKey(b, searchBytes) == Seek(b, searchBytes) # NoKey

\* timeBucketCursor.Seek(searchBytes) lands on searchBytes itself
seekHits(b, searchBytes) == Seek(b, searchBytes) = searchBytes

\* the loop of indexToLocation over the buckets, last to first: lastKey is the
\* cursor of the root bucket, indexesToFetch the indexes still sought
RECURSIVE searchBuckets(_, _, _, _, _, _)
searchBuckets(r, lastKey, toread, res, indexesToFetch, needsCopy) ==
    IF lastKey = NoBucket \/ indexesToFetch = {} THEN res
    ELSE LET timeBucket == r[lastKey]
             found == {i \in indexesToFetch : seekHits(timeBucket, toread[i])}
             res2 == [i \in DOMAIN res |->
                        IF i \in found
                        THEN [bucket |-> lastKey, key |-> toread[i],
                              value |-> timeBucket[Seek(timeBucket, toread[i])],
                              needsCopy |-> needsCopy]
                        ELSE res[i]]
         IN  searchBuckets(r, cursorPrev(r, lastKey), toread, res2,
                           indexesToFetch \ found, TRUE)

\* the view transaction of indexToLocation
indexToLocation(r, toread) ==
    searchBuckets(r, cursorLast(r), toread, [i \in DOMAIN toread |-> ZeroLoc],
                  DOMAIN toread, FALSE)

\* Read sending every read location
toMoveAll(readLocations) == readLocations

\* the read locations Read sends to readMovements, in index order
toMove(readLocations) == SelectSeq(readLocations, LAMBDA rl : rl.needsCopy)

\* the values Read returns
readValues(readLocations) == [i \in DOMAIN readLocations |-> readLocations[i].value]

\* ---------------------------------------------------------------- Delete
\* deleteKeys that deletes and leaves ret as it was
deleteKeysNoFlag(keys, index, b, ret) ==
    [b |-> [k \in Keys |-> IF \E i \in DOMAIN keys : keys[i] = k THEN Nil ELSE b[k]],
     ret |-> ret]

\* deleteKeys on the cursor of one bucket b, from index on
RECURSIVE deleteKeysFrom(_, _, _, _)
deleteKeysFrom(keys, index, b, ret) ==
    IF index > Len(keys) THEN [b |-> b, ret |-> ret]
    ELSE LET key == keys[index]
             hit == Seek(b, key) = key
         IN  deleteKeysFrom(keys, index + 1,
                            IF hit THEN [b EXCEPT ![key] = Nil] ELSE b,
                            IF hit THEN [ret EXCEPT ![index] = TRUE] ELSE ret)

deleteKeys(keys, index, b, ret) == deleteKeysFrom(keys, index, b, ret)

\* bucket.ForEach of Delete: k is the bucket the iteration is at
RECURSIVE deleteForEach(_, _, _, _)
deleteForEach(r, k, keys, ret) ==
    IF k = NoBucket THEN [rings |-> r, ret |-> ret]
    ELSE LET d == deleteKeys(keys, 1, r[k], ret)
         IN  deleteForEach([r EXCEPT ![k] = d.b], cursorNext(r, k), keys, d.ret)

\* the update transaction of Delete
Delete(r, keys) == deleteForEach(r, cursorFirst(r), keys, [i \in DOMAIN keys |-> FALSE])

\* ------------------------------------------------------- moveRecentReads
\* cleanupBucketsFunc: delete the key from the bucket it was read in, put it in
\* the last bucket
cleanupBucketsFunc(r, oldBucket, lastBucket, readLoc) ==
    LET k == Seek(r[oldBucket], readLoc.key)
        r1 == IF k = readLoc.key THEN [r EXCEPT ![oldBucket][readLoc.key] = Nil] ELSE r
    IN  Put(r1, lastBucket, readLoc.key, readLoc.value)

\* the read locations of one bucket, bucketIDToReadLocations[bucketID]
readLocsOf(readLocations, bucketID) ==
    SelectSeq(readLocations, LAMBDA rl : rl.bucket = bucketID)

RECURSIVE moveReadLocs(_, _, _, _)
moveReadLocs(r, oldBucket, lastBucket, readLocs) ==
    IF readLocs = <<>> THEN r
    ELSE moveReadLocs(cleanupBucketsFunc(r, oldBucket, lastBucket, Head(readLocs)),
                      oldBucket, lastBucket, Tail(readLocs))

\* the range over bucketIDToReadLocations; order is the order the Go map yields
RECURSIVE moveBuckets(_, _, _, _)
moveBuckets(r, lastBucket, readLocations, order) ==
    IF order = <<>> THEN r
    ELSE LET bucketID == Head(order)
             r1 == IF bucketID \in DOMAIN r
                   THEN moveReadLocs(r, bucketID, lastBucket,
                                     readLocsOf(readLocations, bucketID))
                   ELSE r
         IN  moveBuckets(r1, lastBucket, readLocations, Tail(order))

bucketIDs(readLocations) == {readLocations[i].bucket : i \in DOMAIN readLocations}

\* the update transaction of moveRecentReads
moveRecentReads(r, readLocations, order) ==
    LET lastBucketKey == cursorLast(r)
    IN  IF lastBucketKey = NoBucket THEN [err |-> "errNoLastBucket", rings |-> r]
        ELSE [err |-> "nil", rings |-> moveBuckets(r, lastBucketKey, readLocations, order)]

\* ------------------------------------------------------ VerifyCompressed
\* createHeap: a cursor for each bucket that has a first key, at that key
createHeap(r) ==
    [id \in {id2 \in DOMAIN r : Seek(r[id2], 1) # NoKey} |-> Seek(r[id], 1)]

\* the test of verifyHeap with < for <=
orderingWrongStrict(nextTop, top) == top # NoKey /\ nextTop < top

\* the test of verifyHeap: top is "" (no key) before the first pop
orderingWrong(nextTop, top) == top # NoKey /\ nextTop <= top

\* the loop of verifyHeap: ch[0] is the cursor with the least head
RECURSIVE verifyHeap(_, _, _)
verifyHeap(r, ch, top) ==
    IF DOMAIN ch = {} THEN "nil"
    ELSE LET c == CHOOSE id \in DOMAIN ch : \A id2 \in DOMAIN ch : ch[id] <= ch[id2]
             nextTop == ch[c]
             headBytes == Seek(r[c], nextTop + 1)
         IN  IF orderingWrong(nextTop, top) THEN "errOrderingWrong"
             ELSE verifyHeap(r,
                             IF headBytes = NoKey
                             THEN [id \in DOMAIN ch \ {c} |-> ch[id]]
                             ELSE [ch EXCEPT ![c] = headBytes],
                             nextTop)

\* the view transaction of VerifyCompressed
VerifyCompressed(r) == verifyHeap(r, createHeap(r), NoKey)

\* ------------------------------------------------ the readMovements channel
\* a receive that sees the close before the buffered items
chanRecvClosedFirst(q, isClosed) ==
    IF isClosed THEN "closed" ELSE IF q # <<>> THEN "ok" ELSE "empty"

\* a receive from the channel: buffered items are received also after close
chanRecv(q, isClosed) ==
    IF q # <<>> THEN "ok" ELSE IF isClosed THEN "closed" ELSE "empty"

\* ------------------------------------------------------------------ state
VARIABLES
    rings,                \* the root bucket: bucket name -> bucket of keys
    minNumOldBuckets,     \* CycleLen
    readMovements,        \* the channel's buffer
    closed,               \* the channel is closed
    allMovements,         \* the batch drainAllMovements is filling
    ppc,                  \* readMovementLoop: "recv", "more", "report", "done"
    cpc,                  \* the client: "idle", "send", "wait", "panic"
    pending,              \* the read locations Read has still to send
    op,                   \* the client's last call
    res,                  \* the values the client's last call returned
    ret,                  \* the flags the client's last call returned
    err,                  \* the error the client's last call returned
    stats,                \* Stats
    nops,                 \* the number of calls the client has made
    readOnly,             \* db.IsReadOnly()
    asyncErrors,          \* the AsyncErrors option was given a channel
    sink,                 \* the number of errors in the buffer of that channel
    age,                  \* history: key -> CycleNodes calls since its only Write
    expect,               \* history: key -> the value a read is due to return
    gone,                 \* history: the keys deleted and not written since
    noWrites,             \* history: Write was never called
    closeDepth            \* history: the read locations not yet moved when Close was called

vars == <<rings, minNumOldBuckets, readMovements, closed, allMovements, ppc, cpc,
          pending, op, res, ret, err, stats, nops, readOnly, asyncErrors, sink, age,
          expect, gone, noWrites, closeDepth>>

\* a channel with room for one more
readMovementBacklogPlusOne == MaxBacklog + 1

readMovementBacklog == MaxBacklog

\* age of a key that was never written, and of one written twice, read or deleted
NeverWritten == -2
Spoiled == -1

conf == <<minNumOldBuckets, asyncErrors, readOnly, sink>>
chan == <<readMovements, closed>>
hist == <<age, expect, gone, noWrites, closeDepth>>

\* New on a fresh database: init has created bucket 0, the loop is started
Init ==
    /\ rings = [id \in {0} |-> EmptyBucket]
    /\ minNumOldBuckets \in 0..MaxMinRings
    /\ readMovements = <<>>
    /\ closed = FALSE
    /\ allMovements = <<>>
    /\ ppc = "recv"
    /\ cpc = "idle"
    /\ pending = <<>>
    /\ op = "New"
    /\ res = <<>>
    /\ ret = <<>>
    /\ err = "nil"
    /\ stats = [TotalCycleCount |-> 0, TotalErrorsDuringRecopy |-> 0]
    /\ nops = 0
    /\ readOnly = FALSE
    /\ asyncErrors = FALSE
    /\ sink = 0
    /\ age = [k \in Keys |-> NeverWritten]
    /\ expect = [k \in Keys |-> Nil]
    /\ gone = {}
    /\ noWrites = TRUE
    /\ closeDepth = 0

CanCall == cpc = "idle" /\ nops < MaxOps

\* ---------------------------------------------------------- client calls
\* the value the batch leaves for key k, Nil if the batch has no pair for k
RECURSIVE lastWritten(_, _)
lastWritten(towrite, k) ==
    IF towrite = <<>> THEN Nil
    ELSE IF towrite[Len(towrite)].Key = k THEN towrite[Len(towrite)].Value
    ELSE lastWritten(SubSeq(towrite, 1, Len(towrite) - 1), k)

\* the age after a Read or a Delete of keys
spoil(keys) ==
    [k \in Keys |-> IF age[k] >= 0 /\ \E i \in DOMAIN keys : keys[i] = k
                    THEN Spoiled ELSE age[k]]

WriteCall(towrite) ==
    /\ CanCall
    /\ ~readOnly
    /\ rings' = Write(rings, towrite).rings
    /\ op' = "Write"
    /\ res' = <<>>
    /\ ret' = <<>>
    /\ err' = Write(rings, towrite).err
    /\ nops' = nops + 1
    /\ age' = [k \in Keys |->
                 LET n == Cardinality({i \in DOMAIN towrite : towrite[i].Key = k})
                 IN  IF n = 0 THEN age[k]
                     ELSE IF n = 1 /\ age[k] = NeverWritten THEN 0
                     ELSE Spoiled]
    /\ expect' = [k \in Keys |-> IF lastWritten(towrite, k) # Nil
                                 THEN lastWritten(towrite, k) ELSE expect[k]]
    /\ gone' = gone \ {towrite[i].Key : i \in DOMAIN towrite}
    /\ noWrites' = FALSE
    /\ UNCHANGED <<conf, chan, allMovements, ppc, cpc, pending, stats, closeDepth>>

DeleteCall(keys) ==
    /\ CanCall
    /\ ~readOnly
    /\ rings' = Delete(rings, keys).rings
    /\ op' = "Delete"
    /\ res' = <<>>
    /\ ret' = Delete(rings, keys).ret
    /\ err' = "nil"
    /\ nops' = nops + 1
    /\ age' = spoil(keys)
    /\ expect' = [k \in Keys |-> IF \E i \in DOMAIN keys : keys[i] = k
                                 THEN Nil ELSE expect[k]]
    /\ gone' = gone \cup {keys[i] : i \in DOMAIN keys}
    /\ UNCHANGED <<conf, chan, allMovements, ppc, cpc, pending, stats, noWrites, closeDepth>>

\* CycleNodes returns
CycleNodesCall ==
    /\ CanCall
    /\ ~readOnly
    /\ CycleNodes(rings, minNumOldBuckets).outcome # "panic"
    /\ rings' = CycleNodes(rings, minNumOldBuckets).rings
    /\ stats' = [stats EXCEPT !.TotalCycleCount = @ + 1]
    /\ op' = "CycleNodes"
    /\ res' = <<>>
    /\ ret' = <<>>
    /\ err' = IF CycleNodes(rings, minNumOldBuckets).outcome = "ok"
              THEN "nil" ELSE "ErrBucketExists"
    /\ nops' = nops + 1
    /\ age' = [k \in Keys |->
                 IF age[k] >= 0 /\ CycleNodes(rings, minNumOldBuckets).outcome = "ok"
                 THEN age[k] + 1 ELSE age[k]]
    /\ expect' = [k \in Keys |->
                    IF \E id \in DOMAIN rings \ DOMAIN rings' : rings[id][k] # Nil
                    THEN Nil ELSE expect[k]]
    /\ UNCHANGED <<conf, chan, allMovements, ppc, cpc, pending, gone, noWrites, closeDepth>>

\* CycleNodes panics in nextKey: the transaction is rolled back, the process dies
CycleNodesPanic ==
    /\ CanCall
    /\ ~readOnly
    /\ CycleNodes(rings, minNumOldBuckets).outcome = "panic"
    /\ stats' = [stats EXCEPT !.TotalCycleCount = @ + 1]
    /\ cpc' = "panic"
    /\ op' = "CycleNodes"
    /\ nops' = nops + 1
    /\ UNCHANGED <<rings, conf, chan, allMovements, ppc, pending, res, ret, err, hist>>

\* VerifyCompressed returns
VerifyCompressedCall ==
    /\ CanCall
    /\ op' = "VerifyCompressed"
    /\ res' = <<>>
    /\ ret' = <<>>
    /\ err' = VerifyCompressed(rings)
    /\ nops' = nops + 1
    /\ UNCHANGED <<rings, conf, chan, allMovements, ppc, cpc, pending, stats, hist>>

\* New on the database a closed CycleDB has left, opened read only: init does
\* nothing, no loop is started, the Stats are new
NewReadOnly ==
    /\ CanCall
    /\ ~readOnly
    /\ closed
    /\ ppc = "done"
    /\ readOnly' = TRUE
    /\ stats' = [TotalCycleCount |-> 0, TotalErrorsDuringRecopy |-> 0]
    /\ op' = "New"
    /\ res' = <<>>
    /\ ret' = <<>>
    /\ err' = "nil"
    /\ nops' = nops + 1
    /\ UNCHANGED <<rings, minNumOldBuckets, asyncErrors, sink, chan, allMovements, ppc,
                   cpc, pending, hist>>

\* db.Update of a read only database fails before the function runs
WriteReadOnly ==
    /\ CanCall
    /\ readOnly
    /\ op' = "Write"
    /\ res' = <<>>
    /\ ret' = <<>>
    /\ err' = "ErrDatabaseReadOnly"
    /\ nops' = nops + 1
    /\ UNCHANGED <<rings, conf, chan, allMovements, ppc, cpc, pending, stats, hist>>

DeleteReadOnly(keys) ==
    /\ CanCall
    /\ readOnly
    /\ op' = "Delete"
    /\ res' = <<>>
    /\ ret' = [i \in DOMAIN keys |-> FALSE]
    /\ err' = "ErrDatabaseReadOnly"
    /\ nops' = nops + 1
    /\ UNCHANGED <<rings, conf, chan, allMovements, ppc, cpc, pending, stats, hist>>

CycleNodesReadOnly ==
    /\ CanCall
    /\ readOnly
    /\ stats' = [stats EXCEPT !.TotalCycleCount = @ + 1]
    /\ op' = "CycleNodes"
    /\ res' = <<>>
    /\ ret' = <<>>
    /\ err' = "ErrDatabaseReadOnly"
    /\ nops' = nops + 1
    /\ UNCHANGED <<rings, conf, chan, allMovements, ppc, cpc, pending, hist>>

\* Close of a read only CycleDB: nothing to close, wg.Wait() returns at once
CloseReadOnly ==
    /\ CanCall
    /\ readOnly
    /\ op' = "Close"
    /\ res' = <<>>
    /\ ret' = <<>>
    /\ err' = "nil"
    /\ nops' = nops + 1
    /\ UNCHANGED <<rings, conf, chan, allMovements, ppc, cpc, pending, stats, hist>>

\* Read up to the end of its view transaction
ReadView(toread) ==
    /\ CanCall
    /\ LET readLocations == indexToLocation(rings, toread)
           sends == IF readOnly THEN <<>> ELSE toMove(readLocations)
       IN  /\ res' = readValues(readLocations)
           /\ pending' = sends
           /\ cpc' = IF sends = <<>> THEN "idle" ELSE "send"
    /\ op' = "Read"
    /\ ret' = <<>>
    /\ err' = "nil"
    /\ nops' = nops + 1
    /\ age' = spoil(toread)
    /\ UNCHANGED <<rings, conf, chan, allMovements, ppc, stats, expect, gone, noWrites,
                   closeDepth>>

\* c.readMovements <- readLocation, which blocks while the buffer is full
ReadSend ==
    /\ cpc = "send"
    /\ ~closed
    /\ Len(readMovements) < readMovementBacklog
    /\ readMovements' = Append(readMovements, Head(pending))
    /\ pending' = Tail(pending)
    /\ cpc' = IF Tail(pending) = <<>> THEN "idle" ELSE "send"
    /\ UNCHANGED <<rings, conf, closed, allMovements, ppc, op, res, ret, err, stats, nops, hist>>

\* a send on the closed channel panics
ReadSendPanic ==
    /\ cpc = "send"
    /\ closed
    /\ cpc' = "panic"
    /\ UNCHANGED <<rings, conf, chan, allMovements, ppc, pending, op, res, ret, err, stats, nops, hist>>

\* Close: close(c.readMovements), then c.wg.Wait()
CloseCall ==
    /\ CanCall
    /\ ~readOnly
    /\ ~closed
    /\ closed' = TRUE
    /\ cpc' = "wait"
    /\ op' = "Close"
    /\ res' = <<>>
    /\ ret' = <<>>
    /\ err' = "nil"
    /\ nops' = nops + 1
    /\ closeDepth' = Len(allMovements) + Len(readMovements)
    /\ UNCHANGED <<rings, conf, readMovements, allMovements, ppc, pending, stats,
                   age, expect, gone, noWrites>>

CloseReturn ==
    /\ cpc = "wait"
    /\ ppc = "done"
    /\ cpc' = "idle"
    /\ UNCHANGED <<rings, conf, chan, allMovements, ppc, pending, op, res, ret, err, stats, nops, hist>>

\* ------------------------------------------------------ readMovementLoop
Alive == cpc # "panic"

\* drainAllMovements: the blocking receive of the first item
DrainFirst ==
    /\ Alive
    /\ ppc = "recv"
    /\ chanRecv(readMovements, closed) = "ok"
    /\ allMovements' = <<Head(readMovements)>>
    /\ readMovements' = Tail(readMovements)
    /\ ppc' = "more"
    /\ UNCHANGED <<rings, conf, closed, cpc, pending, op, res, ret, err, stats, nops, hist>>

\* drainAllMovements returns nil: the loop returns, wg.Done()
DrainClosed ==
    /\ Alive
    /\ ppc = "recv"
    /\ chanRecv(readMovements, closed) = "closed"
    /\ ppc' = "done"
    /\ UNCHANGED <<rings, conf, chan, allMovements, cpc, pending, op, res, ret, err, stats, nops, hist>>

\* drainAllMovements: the select receives one more item
DrainMore ==
    /\ Alive
    /\ ppc = "more"
    /\ Len(allMovements) < maxBatchSize
    /\ chanRecv(readMovements, closed) = "ok"
    /\ allMovements' = Append(allMovements, Head(readMovements))
    /\ readMovements' = Tail(readMovements)
    /\ UNCHANGED <<rings, conf, closed, ppc, cpc, pending, op, res, ret, err, stats, nops, hist>>

\* drainAllMovements returns the batch: it is full or the select finds nothing
BatchDrained ==
    Len(allMovements) >= maxBatchSize \/ chanRecv(readMovements, closed) # "ok"

\* moveRecentReads returns nil
MoveRecentReads ==
    /\ Alive
    /\ ppc = "more"
    /\ BatchDrained
    /\ \E order \in Perms(bucketIDs(allMovements)) :
          rings' = moveRecentReads(rings, allMovements, order).rings
    /\ allMovements' = <<>>
    /\ ppc' = "recv"
    /\ UNCHANGED <<conf, chan, cpc, pending, op, res, ret, err, stats, nops, hist>>

\* moveRecentReads returns an error of the store: the transaction is rolled
\* back, the error is counted and, with AsyncErrors, is to be sent
MoveRecentReadsErr ==
    /\ Alive
    /\ ppc = "more"
    /\ BatchDrained
    /\ stats.TotalErrorsDuringRecopy < MaxErrs
    /\ stats' = [stats EXCEPT !.TotalErrorsDuringRecopy = @ + 1]
    /\ allMovements' = <<>>
    /\ ppc' = IF asyncErrors THEN "report" ELSE "recv"
    /\ UNCHANGED <<rings, conf, chan, cpc, pending, op, res, ret, err, nops, hist>>

\* c.asyncErrors <- err, which blocks while the buffer of the channel is full
ReportError ==
    /\ Alive
    /\ ppc = "report"
    /\ sink < MaxSink
    /\ sink' = sink + 1
    /\ ppc' = "recv"
    /\ UNCHANGED <<rings, minNumOldBuckets, asyncErrors, readOnly, chan, allMovements,
                   cpc, pending, op, res, ret, err, stats, nops, hist>>

\* the owner of the AsyncErrors channel receives an error
SinkReceive ==
    /\ Alive
    /\ sink > 0
    /\ sink' = sink - 1
    /\ UNCHANGED <<rings, minNumOldBuckets, asyncErrors, readOnly, chan, allMovements,
                   ppc, cpc, pending, op, res, ret, err, stats, nops, hist>>

Next ==
    \/ \E towrite \in SeqsUpTo(KvPair, MaxLen) : WriteCall(towrite)
    \/ \E keys \in SeqsUpTo(Keys, MaxLen) : DeleteCall(keys)
    \/ \E toread \in SeqsUpTo(Keys, MaxLen) : ReadView(toread)
    \/ CycleNodesCall
    \/ CycleNodesPanic
    \/ ReadSend
    \/ ReadSendPanic
    \/ CloseCall
    \/ CloseReturn
    \/ DrainFirst
    \/ DrainClosed
    \/ DrainMore
    \/ MoveRecentReads
    \/ MoveRecentReadsErr
    \/ VerifyCompressedCall
    \/ NewReadOnly
    \/ WriteReadOnly
    \/ \E keys \in SeqsUpTo(Keys, MaxLen) : DeleteReadOnly(keys)
    \/ CycleNodesReadOnly
    \/ CloseReadOnly

\* New without AsyncErrors
Spec == Init /\ [][Next]_vars

\* New with AsyncErrors(ch), ch a channel of MaxSink errors
InitSink ==
    /\ rings = [id \in {0} |-> EmptyBucket]
    /\ minNumOldBuckets \in 0..MaxMinRings
    /\ readMovements = <<>>
    /\ closed = FALSE
    /\ allMovements = <<>>
    /\ ppc = "recv"
    /\ cpc = "idle"
    /\ pending = <<>>
    /\ op = "New"
    /\ res = <<>>
    /\ ret = <<>>
    /\ err = "nil"
    /\ stats = [TotalCycleCount |-> 0, TotalErrorsDuringRecopy |-> 0]
    /\ nops = 0
    /\ readOnly = FALSE
    /\ asyncErrors = TRUE
    /\ sink = 0
    /\ age = [k \in Keys |-> NeverWritten]
    /\ expect = [k \in Keys |-> Nil]
    /\ gone = {}
    /\ noWrites = TRUE
    /\ closeDepth = 0

NextSink ==
    \/ Next
    \/ ReportError
    \/ SinkReceive

SpecSink == InitSink /\ [][NextSink]_vars

\* the steps of the readMovementLoop goroutine
Loop ==
    \/ DrainFirst
    \/ DrainClosed
    \/ DrainMore
    \/ MoveRecentReads
    \/ MoveRecentReadsErr
    \/ ReportError

\* the scheduler runs the loop and the goroutine in wg.Wait() when they can step;
\* nothing makes the owner of the AsyncErrors channel receive
FairSpecSink == SpecSink /\ WF_vars(Loop) /\ WF_vars(CloseReturn)

\* the same scheduling without AsyncErrors
FairSpec == Spec /\ WF_vars(Loop) /\ WF_vars(CloseReturn)

\* ---------------------------------------------------------------- claims
Batches == SeqsUpTo(Keys, MaxLen)

KeysOf(keys) == {keys[i] : i \in DOMAIN keys}

\* the buckets that hold key k
Holders(r, k) == {id \in DOMAIN r : r[id][k] # Nil}

\* the value of k in the bucket with the largest name that holds k
NewestValue(r, k) ==
    IF Holders(r, k) = {} THEN Nil
    ELSE r[CHOOSE id \in Holders(r, k) : \A id2 \in Holders(r, k) : id2 <= id][k]

\* the step is the client calling name
Calls(name) == op' = name /\ nops' = nops + 1

\* Close has returned
CloseReturned == closed /\ cpc # "wait"

\* C1: a Read of key k that follows a Write of (k, v), with no Delete of k, no
\* later Write of k and no CycleNodes that drops a bucket holding k in between,
\* returns v, whatever the read movement loop did in between.
ReadYourWrite ==
    [][Calls("Read") =>
         \A toread \in Batches : ReadView(toread) =>
            \A i \in DOMAIN toread :
               expect[toread[i]] # Nil => res'[i] = expect[toread[i]]]_vars

\* C2: once Delete has removed k and no Write of k follows, a Read of k returns
\* nothing and a Delete of k returns false, whatever the read movement loop did.
DeletedStaysDeleted ==
    [][/\ Calls("Read") =>
            \A toread \in Batches : ReadView(toread) =>
               \A i \in DOMAIN toread : toread[i] \in gone => res'[i] = Nil
       /\ Calls("Delete") =>
            \A keys \in Batches : DeleteCall(keys) =>
               \A i \in DOMAIN keys : keys[i] \in gone => ret'[i] = FALSE]_vars

\* C3: Read returns, index by index, the value of the key in the bucket with the
\* largest name that holds it, nil if no bucket holds it; and right after a Write
\* that value is the last one the batch wrote for the key.
ReadNewestFirst ==
    [][/\ Calls("Read") =>
            \A toread \in Batches : ReadView(toread) =>
               /\ Len(res') = Len(toread)
               /\ \A i \in DOMAIN toread : res'[i] = NewestValue(rings, toread[i])
       /\ Calls("Write") =>
            \A towrite \in SeqsUpTo(KvPair, MaxLen) : WriteCall(towrite) =>
               \A i \in DOMAIN towrite :
                  NewestValue(rings', towrite[i].Key) =
                     lastWritten(towrite, towrite[i].Key)]_vars

\* a Read of twice the same key found it in a bucket that is not the last, while
\* an older bucket holds another value for it
ReadNewestFirstWitness ==
    /\ op = "Read"
    /\ cpc = "send"
    /\ Len(res) = 2
    /\ Len(pending) = 2
    /\ pending[1].key = pending[2].key
    /\ res[1] = pending[1].value
    /\ \E id \in DOMAIN rings :
          /\ id < pending[1].bucket
          /\ rings[id][pending[1].key] \notin {Nil, pending[1].value}

\* C4: when CycleNodes returns, the last bucket is new, is empty and is named
\* one more than the bucket that was last before the call.
CycleAppendsEmptyNext ==
    [][CycleNodesCall =>
         /\ cursorLast(rings') = cursorLast(rings) + 1
         /\ cursorLast(rings') \notin DOMAIN rings
         /\ rings'[cursorLast(rings')] = EmptyBucket]_vars

\* CycleNodes has returned, with entries in an older bucket
CycleAppendsEmptyNextWitness ==
    /\ op = "CycleNodes"
    /\ err = "nil"
    /\ cpc = "idle"
    /\ \E id \in DOMAIN rings : rings[id] # EmptyBucket

\* the n smallest names of r
Oldest(r, n) == {id \in DOMAIN r : Cardinality({id2 \in DOMAIN r : id2 < id}) < n}

Min(a, b) == IF a <= b THEN a ELSE b

\* what C5 says of the buckets dropped
DropsOldest ==
    Cardinality(DOMAIN rings) > minNumOldBuckets =>
       /\ DOMAIN rings \ DOMAIN rings' =
             Oldest(rings, Cardinality(DOMAIN rings) - minNumOldBuckets)
       /\ DOMAIN rings' \ DOMAIN rings = {cursorLast(rings')}

\* C5 as stated: when CycleNodes returns there are at least minNumOldBuckets
\* buckets and at most one more than before, and if there were more than
\* minNumOldBuckets the oldest ones in excess were dropped.
CycleKeepsMinRings ==
    [][CycleNodesCall =>
         /\ Cardinality(DOMAIN rings') >= minNumOldBuckets
         /\ Cardinality(DOMAIN rings') <= Cardinality(DOMAIN rings) + 1
         /\ DropsOldest]_vars

\* C5 amended: when CycleNodes returns there are at least
\* min(minNumOldBuckets, count before + 1) buckets and at most one more than
\* before, and if there were more than minNumOldBuckets the oldest ones in
\* excess were dropped.
CycleKeepsMinOrGrows ==
    [][CycleNodesCall =>
         /\ Cardinality(DOMAIN rings') >=
               Min(minNumOldBuckets, Cardinality(DOMAIN rings) + 1)
         /\ Cardinality(DOMAIN rings') <= Cardinality(DOMAIN rings) + 1
         /\ DropsOldest]_vars

\* CycleNodes has returned and has dropped bucket 0
CycleKeepsMinOrGrowsWitness ==
    /\ op = "CycleNodes"
    /\ err = "nil"
    /\ cpc = "idle"
    /\ cursorFirst(rings) > 0
    /\ Cardinality(DOMAIN rings) = minNumOldBuckets + 1

\* C6 as stated: after CycleNodes calls and no Write on a fresh database there
\* are minNumOldBuckets or minNumOldBuckets + 1 buckets.
CycleCountSteady ==
    (noWrites /\ op = "CycleNodes" /\ cpc = "idle") =>
       Cardinality(DOMAIN rings) \in {minNumOldBuckets, minNumOldBuckets + 1}

\* C6 amended: after n CycleNodes calls on a fresh database there are
\* min(n + 1, minNumOldBuckets + 1) buckets, so minNumOldBuckets or one more
\* only from the call minNumOldBuckets - 1 on.
CycleCountGrowsToSteady ==
    ~readOnly =>
       Cardinality(DOMAIN rings) = Min(stats.TotalCycleCount + 1, minNumOldBuckets + 1)

\* CycleNodes calls alone have brought the count to minNumOldBuckets + 1 and
\* kept it there
CycleCountGrowsToSteadyWitness ==
    /\ noWrites
    /\ ~readOnly
    /\ op = "CycleNodes"
    /\ err = "nil"
    /\ minNumOldBuckets >= 1
    /\ stats.TotalCycleCount > minNumOldBuckets
    /\ Cardinality(DOMAIN rings) = minNumOldBuckets + 1

\* no key is in two buckets: what VerifyCompressed asks for
Compressed(r) == \A k \in Keys : Cardinality(Holders(r, k)) <= 1

\* C7: once Close has returned after any calls, each key is in one bucket at most.
CompressedAfterClose ==
    (op = "Close" /\ CloseReturned) => Compressed(rings)

\* C8: when moveRecentReads has processed a batch, the key of each of its read
\* locations is in the last bucket and is not in the bucket it was read in.
PromotionMovesKey ==
    [][MoveRecentReads =>
         \A i \in DOMAIN allMovements :
            /\ rings'[cursorLast(rings')][allMovements[i].key] # Nil
            /\ allMovements[i].bucket \in DOMAIN rings' =>
                  rings'[allMovements[i].bucket][allMovements[i].key] = Nil]_vars

\* C9: when Close has returned the loop has ended with nothing left in the
\* channel or in a batch; a read location leaves the channel and the batch only
\* into a call of moveRecentReads; and moveRecentReads does not run after Close
\* returned.
CloseIsBarrier ==
    /\ [](CloseReturned =>
            ppc = "done" /\ readMovements = <<>> /\ allMovements = <<>>)
    /\ [][\/ allMovements' \o readMovements' = allMovements \o readMovements
          \/ /\ cpc = "send"
             /\ allMovements' \o readMovements' =
                   Append(allMovements \o readMovements, Head(pending))
          \/ /\ MoveRecentReads \/ MoveRecentReadsErr
             /\ allMovements' \o readMovements' = readMovements]_vars
    /\ [][CloseReturned => ~(MoveRecentReads \/ MoveRecentReadsErr)]_vars

\* Close has returned and more read locations than one batch holds were waiting
\* when it was called
CloseIsBarrierWitness ==
    /\ CloseReturned
    /\ op = "Close"
    /\ closeDepth > maxBatchSize

\* C10: Delete leaves no requested key in any bucket, leaves every other entry
\* and the set of buckets as they were, and ret[i] is true exactly when keys[i]
\* was in some bucket and no earlier index of the batch had deleted it.
DeleteRemovesAll ==
    [][Calls("Delete") => \A keys \in Batches : DeleteCall(keys) =>
         /\ DOMAIN rings' = DOMAIN rings
         /\ \A id \in DOMAIN rings : \A k \in Keys :
               rings'[id][k] = IF k \in KeysOf(keys) THEN Nil ELSE rings[id][k]
         /\ Len(ret') = Len(keys)
         /\ \A i \in DOMAIN keys :
               ret'[i] = (/\ Holders(rings, keys[i]) # {}
                          /\ \A j \in 1..(i - 1) : keys[j] # keys[i])]_vars

\* Delete of twice the same key has returned true then false and has left
\* another key in place
DeleteRemovesAllWitness ==
    /\ op = "Delete"
    /\ Len(ret) = 2
    /\ ret[1] /\ ~ret[2]
    /\ Cardinality(DOMAIN rings) >= 2
    /\ \E k \in Keys : Holders(rings, k) # {}

\* C11: a Write that returns an error leaves every bucket as it was; a Write that
\* returns nil has, in the one step of its transaction, put every pair of the
\* batch into the last bucket, the last pair of a repeated key winning, and has
\* left the other entries of the last bucket, every other bucket and the set of
\* buckets as they were.
WriteAllOrNothing ==
    [][Calls("Write") =>
         /\ err' # "nil" => rings' = rings
         /\ \A towrite \in SeqsUpTo(KvPair, MaxLen) : WriteCall(towrite) =>
               /\ err' = "nil"
               /\ DOMAIN rings' = DOMAIN rings
               /\ \A id \in DOMAIN rings : \A k \in Keys :
                     rings'[id][k] =
                        IF id = cursorLast(rings) /\ lastWritten(towrite, k) # Nil
                        THEN lastWritten(towrite, k) ELSE rings[id][k]]_vars

\* a Write has filled the last bucket while an older bucket holds one of the keys
\* with another value
WriteAllOrNothingWitness ==
    /\ op = "Write"
    /\ err = "nil"
    /\ \A k \in Keys : rings[cursorLast(rings)][k] # Nil
    /\ \E id \in DOMAIN rings : \E k \in Keys :
          /\ id # cursorLast(rings)
          /\ rings[id][k] \notin {Nil, rings[cursorLast(rings)][k]}

\* what C12 says of a key by its age
AgedAsDue(a, r, e) ==
    \A k \in Keys :
       /\ a[k] \in 0..minNumOldBuckets =>
             Cardinality(Holders(r, k)) = 1 /\ NewestValue(r, k) = e[k]
       /\ a[k] > minNumOldBuckets => Holders(r, k) = {}

\* C12: a key written once, and not written, read or deleted since, is in a
\* bucket and is what Read returns after each of the next minNumOldBuckets
\* CycleNodes calls, and is in no bucket and is not returned after one more; a
\* bucket leaves the root bucket only in CycleNodes, as one of the oldest in
\* excess of minNumOldBuckets.
AgingOut ==
    /\ [][AgedAsDue(age', rings', expect')]_vars
    /\ [][Calls("Read") =>
            \A toread \in Batches : ReadView(toread) =>
               \A i \in DOMAIN toread :
                  /\ age[toread[i]] \in 0..minNumOldBuckets =>
                        res'[i] # Nil /\ res'[i] = expect[toread[i]]
                  /\ age[toread[i]] > minNumOldBuckets => res'[i] = Nil]_vars
    /\ [][\A id \in DOMAIN rings \ DOMAIN rings' :
            /\ CycleNodesCall
            /\ id \in Oldest(rings, Cardinality(DOMAIN rings) - minNumOldBuckets)]_vars

\* with CycleLen(2), the third CycleNodes after its Write has dropped a key
AgingOutWitness ==
    /\ op = "CycleNodes"
    /\ err = "nil"
    /\ minNumOldBuckets = 2
    /\ \E k \in Keys : age[k] = 3 /\ Holders(rings, k) = {}

\* the bucket with the largest name that holds k
NewestHolder(r, k) == CHOOSE id \in Holders(r, k) : \A id2 \in Holders(r, k) : id2 <= id

\* index i of toread is a key held in some bucket but not in the last one
FoundInOlder(r, toread, i) ==
    Holders(r, toread[i]) # {} /\ NewestHolder(r, toread[i]) # cursorLast(r)

\* one request {bucket, key, value returned} for each such index, in index order
Requests(r, toread, returned) ==
    SelectSeq([i \in DOMAIN toread |->
                 IF FoundInOlder(r, toread, i)
                 THEN [bucket |-> NewestHolder(r, toread[i]), key |-> toread[i],
                       value |-> returned[i], needsCopy |-> TRUE]
                 ELSE ZeroLoc],
              LAMBDA rl : rl.needsCopy)

\* C13: what a Read has to send to readMovements is one read location {bucket,
\* key, value returned} for each index whose key it found in a bucket that is not
\* the last, and nothing on a read only database; the channel grows only by the
\* next of these, and they change only as they are sent.
ReadEnqueuesOlderFinds ==
    /\ [][Calls("Read") =>
            \A toread \in Batches : ReadView(toread) =>
               pending' = IF readOnly THEN <<>> ELSE Requests(rings, toread, res')]_vars
    /\ [][readMovements' # readMovements =>
            \/ readMovements # <<>> /\ readMovements' = Tail(readMovements)
            \/ /\ ~readOnly
               /\ pending # <<>>
               /\ readMovements' = Append(readMovements, Head(pending))
               /\ pending' = Tail(pending)]_vars
    /\ [][pending' # pending =>
            \/ Calls("Read")
            \/ /\ pending # <<>>
               /\ pending' = Tail(pending)
               /\ readMovements' = Append(readMovements, Head(pending))]_vars

\* a Read of two keys has found one in the last bucket and one in an older
\* bucket, and has one read location to send
ReadEnqueuesOlderFindsWitness ==
    /\ op = "Read"
    /\ ~readOnly
    /\ cpc = "send"
    /\ Len(res) = 2
    /\ res[1] # Nil /\ res[2] # Nil
    /\ Len(pending) = 1
    /\ rings[cursorLast(rings)][pending[1].key] = Nil

\* a Read of a read only database has returned values found in older buckets
ReadOnlyReadWitness ==
    /\ op = "Read"
    /\ readOnly
    /\ res # <<>>
    /\ \A i \in DOMAIN res : res[i] # Nil
    /\ rings[cursorLast(rings)] = EmptyBucket

\* C14: VerifyCompressed returns errOrderingWrong exactly when some key is in
\* more than one bucket, returns nil otherwise, and changes no bucket.
VerifyCompressedExact ==
    [][VerifyCompressedCall =>
         /\ err' = IF Compressed(rings) THEN "nil" ELSE "errOrderingWrong"
         /\ rings' = rings]_vars

\* VerifyCompressed has found a key in two buckets of a root bucket that also
\* has an empty bucket
VerifyCompressedExactWitness ==
    /\ op = "VerifyCompressed"
    /\ err = "errOrderingWrong"
    /\ \E id \in DOMAIN rings : rings[id] = EmptyBucket
    /\ \E k \in Keys : Cardinality(Holders(rings, k)) = 2

\* VerifyCompressed has returned nil for buckets that hold keys and an empty one
VerifyCompressedNilWitness ==
    /\ op = "VerifyCompressed"
    /\ err = "nil"
    /\ Cardinality({id \in DOMAIN rings : rings[id] # EmptyBucket}) >= 2
    /\ \E id \in DOMAIN rings : rings[id] = EmptyBucket

\* C15: when moveRecentReads returns nil for a batch with a read location whose
\* bucket CycleNodes has dropped since the Read, no entry of another bucket is
\* deleted for it and its key is in the last bucket afterwards.
PromotionSurvivesRotation ==
    [][MoveRecentReads =>
         \A i \in DOMAIN allMovements :
            allMovements[i].bucket \notin DOMAIN rings =>
               rings'[cursorLast(rings')][allMovements[i].key] # Nil]_vars

\* C16: the channel never holds more than MaxBacklog read locations and a batch
\* never more than MaxBatch; while the channel is full the Read that has to send
\* stays where it is with all it has to send; read locations pass from the head
\* of the channel to the end of the batch, each once and in the order sent, and
\* leave the batch together, 1 to MaxBatch of them, in a call of moveRecentReads.
QueueBoundedFifo ==
    /\ [][Len(readMovements') <= MaxBacklog /\ Len(allMovements') <= MaxBatch]_vars
    /\ [][(cpc = "send" /\ ~closed /\ Len(readMovements) >= MaxBacklog) =>
            /\ pending' = pending
            /\ cpc' = "send"
            /\ <<op, res, ret, err, nops>>' = <<op, res, ret, err, nops>>
            /\ Len(readMovements') <= Len(readMovements)]_vars
    /\ [][\/ /\ allMovements' \o readMovements' = allMovements \o readMovements
             /\ Len(allMovements') \in {Len(allMovements), Len(allMovements) + 1}
          \/ /\ cpc = "send"
             /\ pending # <<>>
             /\ readMovements' = Append(readMovements, Head(pending))
             /\ pending' = Tail(pending)
             /\ allMovements' = allMovements
          \/ /\ MoveRecentReads \/ MoveRecentReadsErr
             /\ Len(allMovements) \in 1..MaxBatch
             /\ allMovements' = <<>>
             /\ readMovements' = readMovements]_vars

\* the channel is full, a full batch waits for moveRecentReads and the Read has
\* more to send
QueueBoundedFifoWitness ==
    /\ cpc = "send"
    /\ ~closed
    /\ pending # <<>>
    /\ Len(readMovements) = MaxBacklog
    /\ Len(allMovements) = MaxBatch

\* C17: a call of moveRecentReads that fails adds one to
\* TotalErrorsDuringRecopy, which nothing else changes, leaves every bucket as
\* it was and drops its batch; and the loop then goes on to receive again, with
\* AsyncErrors once it has sent the error.
FailedBatchLoopGoesOn ==
    /\ [][MoveRecentReadsErr =>
            /\ stats'.TotalErrorsDuringRecopy = stats.TotalErrorsDuringRecopy + 1
            /\ rings' = rings
            /\ allMovements' = <<>>
            /\ readMovements' = readMovements]_vars
    /\ [][stats'.TotalErrorsDuringRecopy # stats.TotalErrorsDuringRecopy =>
            MoveRecentReadsErr \/ NewReadOnly]_vars
    /\ (ppc = "report" ~> ppc = "recv")

\* C19: every Close that is called returns (a Close of a read only database is
\* one step and is never found waiting).
CloseReturns ==
    (cpc = "wait") ~> (cpc = "idle")

\* the largest name of r
Newest(r) == CHOOSE x \in DOMAIN r : \A y \in DOMAIN r : y <= x

\* C18: with minNumOldBuckets >= 1 on a fresh database, a CycleNodes that returns
\* adds the bucket named one more than the last and drops none while there are
\* fewer than minNumOldBuckets + 1 buckets; from then on there are exactly
\* minNumOldBuckets + 1 and it drops the oldest one and adds one, so the count
\* stays minNumOldBuckets + 1.
RotationGrowsThenSlides ==
    [][(CycleNodesCall /\ minNumOldBuckets >= 1) =>
         IF Cardinality(DOMAIN rings) < minNumOldBuckets + 1
         THEN /\ DOMAIN rings' = DOMAIN rings \cup {Newest(rings) + 1}
              /\ Cardinality(DOMAIN rings') = Cardinality(DOMAIN rings) + 1
         ELSE /\ Cardinality(DOMAIN rings) = minNumOldBuckets + 1
              /\ DOMAIN rings' =
                    (DOMAIN rings \ Oldest(rings, 1)) \cup {Newest(rings) + 1}
              /\ Cardinality(DOMAIN rings') = minNumOldBuckets + 1]_vars

\* with CycleLen(2), five CycleNodes calls have left three buckets
RotationGrowsThenSlidesWitness ==
    /\ ~readOnly
    /\ op = "CycleNodes"
    /\ err = "nil"
    /\ minNumOldBuckets = 2
    /\ stats.TotalCycleCount = 5
    /\ Cardinality(DOMAIN rings) = 3

\* the names of r are the integers of an interval that is not empty
Interval(r) ==
    /\ DOMAIN r # {}
    /\ \A a, b \in DOMAIN r : \A x \in a..b : x \in DOMAIN r

\* C20: with minNumOldBuckets >= 1 the bucket names are always a non-empty
\* interval of integers, the largest name never decreases, and only a CycleNodes
\* that returns changes the set of buckets.
RingDirectory ==
    /\ [](minNumOldBuckets >= 1 => Interval(rings))
    /\ [][minNumOldBuckets >= 1 =>
            /\ Interval(rings')
            /\ Newest(rings') >= Newest(rings)
            /\ DOMAIN rings' # DOMAIN rings => CycleNodesCall]_vars

\* CycleNodes calls have dropped buckets 0 and 1 around Writes and a recopy
RingDirectoryWitness ==
    /\ minNumOldBuckets >= 1
    /\ \A id \in DOMAIN rings : id >= 2
    /\ Cardinality(DOMAIN rings) >= 2
    /\ \E id \in DOMAIN rings : rings[id] # EmptyBucket
    /\ ppc = "recv"
    /\ op = "Read"

====
